---- MODULE Spec2Model ----
(***************************************************************************)
(* Model of rmnc (src/src/main.rs): the audio callback process_audio, its  *)
(* thread-local carry-over REMAINDER, the shared history waveform_data     *)
(* behind one Mutex, and the on_render_plot closure that reads it; the     *)
(* start of the stream in start_audio_stream; and render_plot, column by   *)
(* column.                                                                 *)
(*                                                                         *)
(* f32 values are modelled as integers counting tenths (10 is 1.0); the    *)
(* code only compares, negates and takes absolute values of samples, which *)
(* integers reproduce exactly.  f32::INFINITY is an integer above every    *)
(* sample.  NaN inputs are outside the model.                              *)
(***************************************************************************)
EXTENDS Integers, Sequences, FiniteSets, TLC

VARIABLES
    sample_format,  \* config.sample_format() of the stream: "F32" or "I16"
    a_pc,           \* position of the audio callback thread in process_audio
    samples,        \* local `samples` of that call (converted, merged)
    min_max_data,   \* local `min_max_data` of that call
    push_i,         \* number of values of min_max_data already pushed
    REMAINDER,      \* thread_local REMAINDER
    mutex,          \* owner of the Mutex around waveform_data
    waveform,       \* the SharedVector<f32> inside the Mutex
    ui_pc,          \* position of the UI thread in the on_render_plot closure
    calls,          \* number of process_audio calls started
    stream,         \* history variable: all converted samples delivered
    emitted,        \* history variable: every value ever pushed to waveform
    committed,      \* history variable: waveform when process_audio last returned
    warm,           \* history variable: chunks processed before the first state
    carry_len,      \* history variable: length of REMAINDER when the call began
    device,         \* host.default_input_device(): "none" or "mic"
    backend_fault,  \* the backend call that fails: "none", "name", "config",
                    \* "build" or "play"
    buffer_range,   \* config.buffer_size(): <<"Range", min, max>> or <<"Unknown", 0, 0>>
    start_result,   \* how start_audio_stream ended: "none" (not run), "Ok", "Err", "panic"
    buffer_size,    \* supported_config.buffer_size: <<"Fixed", n>>, <<"Default", 0>>,
                    \* or <<"None", 0>> while no StreamConfig was made
    stream_state,   \* the cpal Stream: "none", "playing" or "dropped"
    callback,       \* sample type of the registered data callback, or "none"
    width,          \* render_plot's parameter width
    height,         \* render_plot's parameter height
    scale,          \* render_plot's local scale, as <<numerator, denominator>>
    img,            \* render_plot's ImageBuffer: the colour of pixel <<x, y>>
    col,            \* loop counter i of render_plot
    r_pc,           \* position in render_plot: "idle", "call", "loop", "done", "panicked"
    r_fault         \* why render_plot panicked: "none", "index", "pixel", "overflow"

start_vars == <<device, backend_fault, buffer_range, start_result, buffer_size,
                stream_state, callback>>

audio_vars == <<sample_format, a_pc, samples, min_max_data, push_i, REMAINDER,
                mutex, waveform, ui_pc, calls, stream, emitted, committed, warm,
                carry_len>>

render_vars == <<width, height, scale, img, col, r_pc, r_fault>>

vars == <<audio_vars, start_vars, render_vars>>

(* ------------------------------ bounds -------------------------------- *)

\* process_audio calls explored per behaviour
MaxCalls == 3

\* canvases handed to render_plot: 1..MaxWidth columns, 1..MaxHeight rows
MaxWidth == 3

MaxHeight == 5

(* -------------------------- program constants ------------------------- *)

chunk_size == 2048

\* the literal 2000 of the trim, main.rs:163-164
HistoryCap == 2000

\* stands for f32::INFINITY: above the magnitude of every sample
INFINITY == 1000000000

NEG_INFINITY == 0 - INFINITY

(* ------------------------------ f32 helpers --------------------------- *)

abs(x) == IF x < 0 THEN 0 - x ELSE x

f32_min(a, b) == IF b < a THEN b ELSE a

f32_max(a, b) == IF b > a THEN b ELSE a

\* ToPrimitive::to_f32: an i16 becomes the float of the same numeric value
\* (s.0, i.e. 10*s tenths); an f32 is returned as it is.
to_f32(fmt, s) == IF fmt = "I16" THEN s * 10 ELSE s

(* ------------------------------ inputs -------------------------------- *)

\* Raw sample at 1-based position i of a buffer with content pattern p.
\*   alt : 1.0, -1.0, 1.0, -1.0, ...
\*   mix : left channel cycles 0.2, -0.9, 0.5; right cycles -0.3, 0.7, -0.7
\*   xim : mix with the two channels exchanged
\*   zero: silence
PatF32(p, i) ==
    CASE p = "alt"  -> IF i % 2 = 1 THEN 10 ELSE -10
      [] p = "mix"  -> IF i % 2 = 1
                       THEN <<2, -9, 5>>[(((i - 1) \div 2) % 3) + 1]
                       ELSE <<-3, 7, -7>>[(((i - 1) \div 2) % 3) + 1]
      [] p = "zero" -> 0
      [] OTHER      -> IF i % 2 = 1
                       THEN <<-3, 7, -7>>[(((i - 1) \div 2) % 3) + 1]
                       ELSE <<2, -9, 5>>[(((i - 1) \div 2) % 3) + 1]

\* The same for a 16-bit stream: alt is 32767, -32768, ...; mix and xim
\* are the f32 patterns a hundred times larger.
PatI16(p, i) ==
    IF p = "alt" THEN (IF i % 2 = 1 THEN 32767 ELSE -32768)
    ELSE 100 * PatF32(p, i)

Buffer(fmt, len, p) ==
    [i \in 1..len |-> IF fmt = "I16" THEN PatI16(p, i) ELSE PatF32(p, i)]

\* The buffers the backend may deliver, as <<length, pattern>>: empty, a
\* single sample, one short of a chunk, exactly one chunk, two chunks.
Inputs ==
    { <<0, "alt">>, <<1, "mix">>, <<2047, "mix">>, <<2048, "xim">>,
      <<4096, "alt">> }

(* --------------------------- chunk reducer ---------------------------- *)

\* chunk.iter().step_by(2)
left_channel(chunk) == [j \in 1..((Len(chunk) + 1) \div 2) |-> chunk[2 * j - 1]]

\* chunk.iter().skip(1).step_by(2)
right_channel(chunk) == [j \in 1..(Len(chunk) \div 2) |-> chunk[2 * j]]

\* channel.fold(acc, |a, &b| f32::min(a, b)): f32::min keeps the smaller of
\* the accumulator and the element, so the fold ends with the least value
\* among acc and the elements
fold_min(channel, acc) ==
    LET seen == {channel[i] : i \in 1..Len(channel)} \cup {acc}
    IN  CHOOSE m \in seen : \A v \in seen : f32_min(m, v) = m

\* channel.fold(acc, |a, &b| f32::max(a, b)): the greatest value among acc
\* and the elements
fold_max(channel, acc) ==
    LET seen == {channel[i] : i \in 1..Len(channel)} \cup {acc}
    IN  CHOOSE m \in seen : \A v \in seen : f32_max(m, v) = m

min_left(chunk) == fold_min(left_channel(chunk), INFINITY)

max_left(chunk) == fold_max(left_channel(chunk), NEG_INFINITY)

min_right(chunk) == fold_min(right_channel(chunk), INFINITY)

max_right(chunk) == fold_max(right_channel(chunk), NEG_INFINITY)

\* the signed operand kept instead of its magnitude
max_deviation_signed(mn, mx) == IF abs(mn) > abs(mx) THEN mn ELSE mx

\* if min.abs() > max.abs() { min.abs() } else { max.abs() }
max_deviation(mn, mx) == IF abs(mn) > abs(mx) THEN abs(mn) ELSE abs(mx)

max_deviation_left(chunk) == max_deviation(min_left(chunk), max_left(chunk))

max_deviation_right(chunk) == max_deviation(min_right(chunk), max_right(chunk))

\* the chunk count taken per channel pair
full_chunks_halved(s) == Len(s) \div (2 * chunk_size)

\* the chunk count rounded up: the short last chunk counted as full
full_chunks_rounded_up(s) == (Len(s) + chunk_size - 1) \div chunk_size

\* line 129
full_chunks(s) == Len(s) \div chunk_size

\* samples.chunks(chunk_size): the k-th chunk, the last one possibly short
chunks(s, k) ==
    SubSeq(s, (k - 1) * chunk_size + 1,
           IF k * chunk_size < Len(s) THEN k * chunk_size ELSE Len(s))

\* .take(full_chunks) left out: the short last chunk is visited too
chunks_all(s) == (Len(s) + chunk_size - 1) \div chunk_size

\* .take(full_chunks): how many chunks the loop visits
chunks_taken(s) == full_chunks(s)

\* the loop of lines 130-146: two values per visited chunk, -left then right
reduce(s) ==
    [j \in 1..(2 * chunks_taken(s)) |->
        IF j % 2 = 1 THEN 0 - max_deviation_left(chunks(s, (j + 1) \div 2))
                     ELSE max_deviation_right(chunks(s, j \div 2))]

\* data.iter().filter_map(|&s| s.to_f32()).collect(): to_f32 is Some for
\* every i16 and f32, so no sample is skipped
convert(fmt, d) == [i \in 1..Len(d) |-> to_f32(fmt, d[i])]

\* the carry-over appended behind the new samples instead of in front
merge_behind(rem, s) == IF rem # <<>> THEN s \o rem ELSE s

\* lines 115-125: the carry-over goes in front of the new samples
merge(rem, s) == IF rem # <<>> THEN rem \o s ELSE s

\* rem.clear() left out
clear_forgotten(rem) == rem

\* lines 117-124: REMAINDER after the merge (cleared if it held anything)
clear_remainder(rem) == IF rem # <<>> THEN <<>> ELSE rem

\* lines 149-154: rem.extend_from_slice(&samples[len - remainder..])
store_remainder(rem_after_merge, s) ==
    LET remainder == Len(s) % chunk_size
    IN  IF remainder > 0
        THEN rem_after_merge \o SubSeq(s, Len(s) - remainder + 1, Len(s))
        ELSE rem_after_merge

\* the shortened copy is built but never assigned back
trim_unassigned(w) == w

\* the slice taken from the front: the newest values are the ones dropped
trim_newest(w) ==
    IF Len(w) > HistoryCap THEN SubSeq(w, 1, HistoryCap) ELSE w

\* one value too many dropped
trim_one_more(w) ==
    IF Len(w) > HistoryCap THEN SubSeq(w, Len(w) - HistoryCap + 2, Len(w)) ELSE w

\* lines 163-167
trim(w) ==
    IF Len(w) > HistoryCap
    THEN LET excess == Len(w) - HistoryCap
         IN  SubSeq(w, excess + 1, Len(w))
    ELSE w

(* ------------------------------ the Mutex ----------------------------- *)

\* a lock that lets a second thread in
lock_ignored(m) == TRUE

\* Mutex::lock returns only when no other thread holds the guard
lock_available(m) == m = "free"

\* a guard that is never dropped
unlock_forgotten(m) == m

\* dropping the MutexGuard releases the Mutex
unlock(m) == "free"

(* --------------------------- start_audio_stream ----------------------- *)

\* line 64: 1024 * 4 * 1024
BufferCeiling == 4194304

\* what default_input_config() may report as sample format; U16 stands for
\* every format other than I16 and F32
SampleFormats == {"I16", "F32", "U16"}

\* what config.buffer_size() may report: no range, a range below the
\* ceiling, a range that ends at it, one that contains it, one above it
BufferRanges ==
    { <<"Unknown", 0, 0>>, <<"Range", 64, 1024>>, <<"Range", 1, 4194304>>,
      <<"Range", 256, 8388608>>, <<"Range", 8388608, 16777216>> }

\* the ceiling taken as the size, the default taken when it reaches max
select_with_fallback(range) ==
    IF range[1] = "Range" /\ BufferCeiling < range[3]
    THEN <<"Fixed", BufferCeiling>>
    ELSE <<"Default", 0>>

\* lines 61-72
select_buffer_size(range) ==
    IF range[1] = "Range"
    THEN LET max == range[3]
             size == IF max < BufferCeiling THEN max ELSE BufferCeiling
         IN  <<"Fixed", size>>
    ELSE <<"Default", 0>>

\* the match without its last arm
format_any(fmt) == TRUE

\* lines 75-95: the match on sample_format
format_supported(fmt) == fmt \in {"I16", "F32"}

\* lines 48-100, the whole function: <<result, buffer_size, stream, callback>>
start_outcome(dev, fault, fmt, range) ==
    IF dev = "none" THEN <<"panic", <<"None", 0>>, "none", "none">>
    ELSE IF fault = "name" THEN <<"Err", <<"None", 0>>, "none", "none">>
    ELSE IF fault = "config" THEN <<"panic", <<"None", 0>>, "none", "none">>
    ELSE IF ~format_supported(fmt)
         THEN <<"Err", select_buffer_size(range), "none", "none">>
    ELSE IF fault = "build"
         THEN <<"Err", select_buffer_size(range), "none", "none">>
    ELSE IF fault = "play"
         THEN <<"Err", select_buffer_size(range), "dropped", fmt>>
    ELSE <<"Ok", select_buffer_size(range), "playing", fmt>>

(* ---------------------------- initial state --------------------------- *)

\* The session may already have run: WarmHistory(fmt, n) is the history
\* after n whole chunks of the alt pattern, which is below the trim
\* threshold for n <= 1000, so nothing was dropped and REMAINDER is empty.
\* n = 0 is the state right after main constructed the SharedVector; from
\* n = 999 one more chunk fills the history to exactly 2000 values and the
\* next one makes the trim act.  The locals are those of a last call on an
\* empty buffer; calls, stream and carry_len count from the first state.
Sessions == {<<"F32", 0>>, <<"F32", 999>>, <<"I16", 999>>}

\* the values process_audio computes for a buffer of two alt chunks
WarmValuesF32 == reduce(convert("F32", Buffer("F32", 2 * chunk_size, "alt")))

WarmValuesI16 == reduce(convert("I16", Buffer("I16", 2 * chunk_size, "alt")))

WarmHistory(fmt, n) ==
    [j \in 1..(2 * n) |->
        IF fmt = "I16" THEN WarmValuesI16[((j - 1) % 2) + 1]
                       ELSE WarmValuesF32[((j - 1) % 2) + 1]]

\* no render_plot call is under way
render_idle ==
    /\ width = 0
    /\ height = 0
    /\ scale = <<1, 1>>
    /\ img = <<>>
    /\ col = 0
    /\ r_pc = "idle"
    /\ r_fault = "none"

Init ==
    /\ \E session \in Sessions : sample_format = session[1] /\ warm = session[2]
    /\ waveform = WarmHistory(sample_format, warm)
    /\ emitted = waveform
    /\ committed = waveform
    /\ stream = <<>>
    /\ REMAINDER = <<>>
    /\ samples = <<>>
    /\ min_max_data = <<>>
    /\ push_i = 0
    /\ a_pc = "idle"
    /\ ui_pc = "idle"
    /\ mutex = "free"
    /\ calls = 0
    /\ carry_len = 0
    /\ device = "mic"
    /\ backend_fault = "none"
    /\ buffer_range = <<"Unknown", 0, 0>>
    /\ start_result = "Ok"
    /\ buffer_size = select_buffer_size(buffer_range)
    /\ stream_state = "playing"
    /\ callback = sample_format
    /\ render_idle

(* --------------------- audio callback: process_audio ------------------ *)

\* lines 103-154: everything before the lock; touches only locals and the
\* thread-local REMAINDER
process_audio_begin(inp) ==
    /\ a_pc = "idle"
    /\ calls < MaxCalls
    /\ LET d == Buffer(sample_format, inp[1], inp[2])
           converted == convert(sample_format, d)
           s == merge(REMAINDER, converted)
       IN  /\ samples' = s
           /\ min_max_data' = reduce(s)
           /\ REMAINDER' = store_remainder(clear_remainder(REMAINDER), s)
           /\ stream' = stream \o converted
    /\ push_i' = 0
    /\ carry_len' = Len(REMAINDER)
    /\ calls' = calls + 1
    /\ a_pc' = "lock"
    /\ UNCHANGED <<sample_format, warm, mutex, waveform, ui_pc, emitted, committed>>
    /\ UNCHANGED start_vars
    /\ UNCHANGED render_vars

\* line 157: waveform_data.lock().unwrap()
process_audio_lock ==
    /\ a_pc = "lock"
    /\ lock_available(mutex)
    /\ mutex' = "audio"
    /\ a_pc' = "push"
    /\ UNCHANGED <<sample_format, warm, carry_len, samples, min_max_data, push_i,
                   REMAINDER, waveform, ui_pc, calls, stream, emitted, committed>>
    /\ UNCHANGED start_vars
    /\ UNCHANGED render_vars

\* lines 158-160: one iteration of the push loop
process_audio_push ==
    /\ a_pc = "push"
    /\ push_i < Len(min_max_data)
    /\ waveform' = Append(waveform, min_max_data[push_i + 1])
    /\ emitted' = Append(emitted, min_max_data[push_i + 1])
    /\ push_i' = push_i + 1
    /\ UNCHANGED <<sample_format, warm, carry_len, a_pc, samples, min_max_data,
                   REMAINDER, mutex, ui_pc, calls, stream, committed>>
    /\ UNCHANGED start_vars
    /\ UNCHANGED render_vars

\* lines 163-168: the trim, then the guard is dropped as the function returns
process_audio_trim ==
    /\ a_pc = "push"
    /\ push_i = Len(min_max_data)
    /\ waveform' = trim(waveform)
    /\ committed' = waveform'
    /\ mutex' = unlock(mutex)
    /\ a_pc' = "idle"
    /\ UNCHANGED <<sample_format, warm, carry_len, samples, min_max_data, push_i,
                   REMAINDER, ui_pc, calls, stream, emitted>>
    /\ UNCHANGED start_vars
    /\ UNCHANGED render_vars

(* ------------------- UI thread: on_render_plot closure ---------------- *)

\* the 50 ms timer dirties the window and Slint calls the closure (line 28)
render_tick ==
    /\ ui_pc = "idle"
    /\ ui_pc' = "lock"
    /\ UNCHANGED <<sample_format, warm, carry_len, a_pc, samples, min_max_data, push_i,
                   REMAINDER, mutex, waveform, calls, stream, emitted, committed>>
    /\ UNCHANGED start_vars
    /\ UNCHANGED render_vars

\* line 29: waveform_data_clone.lock().unwrap()
render_lock ==
    /\ ui_pc = "lock"
    /\ lock_available(mutex)
    /\ mutex' = "ui"
    /\ ui_pc' = "render"
    /\ UNCHANGED <<sample_format, warm, carry_len, a_pc, samples, min_max_data, push_i,
                   REMAINDER, waveform, calls, stream, emitted, committed>>
    /\ UNCHANGED start_vars
    /\ UNCHANGED render_vars

\* line 30-31: render_plot(&data, ..) runs with the guard alive; the guard
\* is dropped when the closure returns
render_return ==
    /\ ui_pc = "render"
    /\ mutex' = unlock(mutex)
    /\ ui_pc' = "idle"
    /\ UNCHANGED <<sample_format, warm, carry_len, a_pc, samples, min_max_data, push_i,
                   REMAINDER, waveform, calls, stream, emitted, committed>>
    /\ UNCHANGED start_vars
    /\ UNCHANGED render_vars

Next ==
    \/ \E inp \in Inputs : process_audio_begin(inp)
    \/ process_audio_lock
    \/ process_audio_push
    \/ process_audio_trim
    \/ render_tick
    \/ render_lock
    \/ render_return

Spec == Init /\ [][Next]_vars

\* Both threads keep running.  A thread blocked in Mutex::lock gets the
\* Mutex if it is free again and again (the closure is called once per
\* 50 ms tick, the callback once per buffer), hence SF for the two lock
\* steps; the other steps only need the thread to be scheduled.
FairSpec ==
    /\ Spec
    /\ SF_vars(process_audio_lock)
    /\ WF_vars(process_audio_push)
    /\ WF_vars(process_audio_trim)
    /\ SF_vars(render_lock)
    /\ WF_vars(render_return)

(* ------------------ the program from its very start ------------------ *)

\* main before line 23: the history is empty, nothing has been started;
\* the host's device, its default configuration and the backend's
\* behaviour are whatever the machine offers
StartInit ==
    /\ sample_format \in SampleFormats
    /\ device \in {"none", "mic"}
    /\ backend_fault \in {"none", "name", "config", "build", "play"}
    /\ buffer_range \in BufferRanges
    /\ start_result = "none"
    /\ buffer_size = <<"None", 0>>
    /\ stream_state = "none"
    /\ callback = "none"
    /\ warm = 0
    /\ waveform = <<>>
    /\ emitted = <<>>
    /\ committed = <<>>
    /\ stream = <<>>
    /\ REMAINDER = <<>>
    /\ samples = <<>>
    /\ min_max_data = <<>>
    /\ push_i = 0
    /\ a_pc = "idle"
    /\ ui_pc = "idle"
    /\ mutex = "free"
    /\ calls = 0
    /\ carry_len = 0
    /\ render_idle

\* line 23: main calls start_audio_stream
start_audio_stream ==
    /\ start_result = "none"
    /\ LET out == start_outcome(device, backend_fault, sample_format, buffer_range)
       IN  /\ start_result' = out[1]
           /\ buffer_size' = out[2]
           /\ stream_state' = out[3]
           /\ callback' = out[4]
    /\ UNCHANGED <<sample_format, a_pc, samples, min_max_data, push_i, REMAINDER,
                   mutex, waveform, ui_pc, calls, stream, emitted, committed,
                   warm, carry_len, device, backend_fault, buffer_range>>
    /\ UNCHANGED render_vars

\* the buffers delivered in the runs that begin with the start
StartInputs == { <<2047, "mix">>, <<2048, "xim">> }

\* The backend calls the data callback of a playing stream only; main
\* reaches the UI (lines 27-43) only if expect() on line 23 got an Ok.
StartNext ==
    \/ start_audio_stream
    \/ /\ stream_state = "playing"
       /\ callback = sample_format
       /\ \E inp \in StartInputs : process_audio_begin(inp)
    \/ process_audio_lock
    \/ process_audio_push
    \/ process_audio_trim
    \/ /\ start_result = "Ok"
       /\ render_tick
    \/ render_lock
    \/ render_return

StartSpec == StartInit /\ [][StartNext]_vars

(* ------------------------------ render_plot --------------------------- *)

\* A position on the canvas is an exact fraction <<numerator, denominator>>
\* with a positive denominator; the rounding of the f32 operations is left
\* out.  A colour is "black" (the fill of line 174), "baseline"
\* [100, 100, 255], "green" [0, 255, 0] or "red" [255, 100, 100].

\* center_y as u32, with center_y = height as f32 / 2.0 (line 177)
center_row(h) == h \div 2

\* lines 180-183: fold(0.0, |a, b| a.max(b.abs())), in tenths
max_amplitude(w) ==
    LET seen == {abs(w[i]) : i \in 1..Len(w)} \cup {0}
    IN  CHOOSE m \in seen : \A v \in seen : v <= m

\* line 185: 1.0 / max_amplitude for an amplitude of m tenths, else 1.0
render_scale(m) == IF m > 0 THEN <<10, m>> ELSE <<1, 1>>

\* lines 194-195: center_y + value * center_y * scale for a value of v
\* tenths: h/2 + (v/10) * (h/2) * (sc[1]/sc[2])
y_position(v, h, sc) == <<h * (10 * sc[2] + v * sc[1]), 20 * sc[2]>>

\* y >= 0.0 && y < height as f32 (lines 199 and 211)
in_canvas(y, h) == y[1] >= 0 /\ y[1] < h * y[2]

\* y as u32: truncation, negative values saturate at 0
as_u32(y) == IF y[1] < 0 THEN 0 ELSE y[1] \div y[2]

\* the loop never left at the canvas edge
column_unlimited(i, w) == FALSE

\* line 188: i >= width as usize
column_limit(i, w) == i >= w

\* the segment drawn whatever its end rows
rows_any(y0, y1) == TRUE

\* y0 != y1 (lines 203 and 215)
rows_differ(y0, y1) == y0 # y1

\* a - b on u32: with overflow checks a result below 0 panics (-1 here);
\* without them it wraps to a row far above every canvas (INFINITY here)
sub_u32(a, b, overflow_checks) ==
    IF a >= b THEN a - b ELSE IF overflow_checks THEN -1 ELSE INFINITY

\* line 204
min_segment(y0, y1, overflow_checks) ==
    IF y0 < y1 THEN <<sub_u32(y0, 1, overflow_checks), y1>>
               ELSE <<y1, sub_u32(y0, 1, overflow_checks)>>

\* line 216
max_segment(y0, y1) == IF y0 < y1 THEN <<y0 + 1, y1>> ELSE <<y1, y0 + 1>>

\* for y in start..=end { if y >= 0 && y < height { .. } }
segment_rows(seg, h) == {y \in 0..(h - 1) : seg[1] <= y /\ y <= seg[2]}

\* lines 199-209: the rows coloured green for a left value v
min_rows(v, h, sc, overflow_checks) ==
    LET y_min == y_position(v, h, sc)
        y0 == center_row(h)
        y1 == as_u32(y_min)
    IN  IF in_canvas(y_min, h) /\ rows_differ(y0, y1)
        THEN segment_rows(min_segment(y0, y1, overflow_checks), h)
        ELSE {}

\* line 204 evaluates y0 - 1 with y0 = 0
min_overflows(v, h, sc) ==
    LET y_min == y_position(v, h, sc)
    IN  /\ in_canvas(y_min, h)
        /\ rows_differ(center_row(h), as_u32(y_min))
        /\ center_row(h) < 1

\* lines 211-221: the rows coloured red for a right value v
max_rows(v, h, sc) ==
    LET y_max == y_position(v, h, sc)
        y0 == center_row(h)
        y1 == as_u32(y_max)
    IN  IF in_canvas(y_max, h) /\ rows_differ(y0, y1)
        THEN segment_rows(max_segment(y0, y1), h)
        ELSE {}

\* waveform_data.chunks(2): how many chunks, the last one possibly short
pair_count(w) == (Len(w) + 1) \div 2

\* the chunk of loop index i
pair_chunk(w, i) ==
    SubSeq(w, 2 * i + 1, IF 2 * i + 2 <= Len(w) THEN 2 * i + 2 ELSE Len(w))

\* ImageBuffer::put_pixel panics outside the buffer
put_pixel_in_bounds(x, y, w, h) == x < w /\ y < h

\* The histories render_plot is called on: what process_audio leaves in
\* waveform_data after calls on silence, on the mix, xim and alt buffers
\* and on a full history of 2000 values.
ReducedZero == reduce(convert("F32", Buffer("F32", chunk_size, "zero")))

ReducedMix == reduce(convert("F32", Buffer("F32", chunk_size, "mix")))

ReducedXim == reduce(convert("F32", Buffer("F32", chunk_size, "xim")))

ReducedMixI16 == reduce(convert("I16", Buffer("I16", chunk_size, "mix")))

RenderHistories(fmt) ==
    IF fmt = "I16"
    THEN { ReducedMixI16 \o WarmValuesI16, WarmValuesI16 \o ReducedMixI16 }
    ELSE { <<>>, ReducedZero, ReducedZero \o ReducedZero, ReducedMix,
           ReducedXim \o ReducedMix \o ReducedZero,
           ReducedMix \o ReducedXim \o WarmValuesF32,
           trim(WarmHistory("F32", 1000) \o ReducedMix) }

\* the closure of line 28 has taken the lock and calls render_plot with
\* the canvas size Slint hands it
RenderInit ==
    /\ sample_format \in {"F32", "I16"}
    /\ waveform \in RenderHistories(sample_format)
    /\ width \in 1..MaxWidth
    /\ height \in 1..MaxHeight
    /\ emitted = waveform
    /\ committed = waveform
    /\ warm = Len(waveform) \div 2
    /\ stream = <<>>
    /\ REMAINDER = <<>>
    /\ samples = <<>>
    /\ min_max_data = <<>>
    /\ push_i = 0
    /\ a_pc = "idle"
    /\ ui_pc = "render"
    /\ mutex = "ui"
    /\ calls = 0
    /\ carry_len = 0
    /\ device = "mic"
    /\ backend_fault = "none"
    /\ buffer_range = <<"Unknown", 0, 0>>
    /\ start_result = "Ok"
    /\ buffer_size = select_buffer_size(buffer_range)
    /\ stream_state = "playing"
    /\ callback = sample_format
    /\ scale = <<1, 1>>
    /\ img = <<>>
    /\ col = 0
    /\ r_pc = "call"
    /\ r_fault = "none"

\* lines 174-185: the black image, center_y, max_amplitude and scale
render_plot_begin ==
    /\ ui_pc = "render"
    /\ r_pc = "call"
    /\ img' = [p \in (0..(width - 1)) \X (0..(height - 1)) |-> "black"]
    /\ scale' = render_scale(max_amplitude(waveform))
    /\ col' = 0
    /\ r_pc' = "loop"
    /\ UNCHANGED <<width, height, r_fault>>
    /\ UNCHANGED audio_vars
    /\ UNCHANGED start_vars

\* lines 187-222: one iteration of the loop.  chunk[1] panics on a chunk
\* of one value, y0 - 1 panics below 0 in a build with overflow checks,
\* put_pixel panics outside the image.  The writes are the baseline
\* pixel, then the green rows, then the red rows.
render_plot_column ==
    /\ r_pc = "loop"
    /\ col < pair_count(waveform)
    /\ ~column_limit(col, width)
    /\ \E overflow_checks \in BOOLEAN :
         LET chunk == pair_chunk(waveform, col)
             fault == IF Len(chunk) < 2 THEN "index"
                      ELSE IF ~put_pixel_in_bounds(col, center_row(height),
                                                   width, height)
                           THEN "pixel"
                      ELSE IF min_overflows(chunk[1], height, scale)
                              /\ overflow_checks
                           THEN "overflow"
                      ELSE "none"
         IN  IF fault # "none"
             THEN /\ r_fault' = fault
                  /\ r_pc' = "panicked"
                  /\ UNCHANGED <<img, col>>
             ELSE LET green == min_rows(chunk[1], height, scale, overflow_checks)
                      red == max_rows(chunk[2], height, scale)
                  IN  /\ img' = [p \in DOMAIN img |->
                                   IF p[1] # col THEN img[p]
                                   ELSE IF p[2] \in red THEN "red"
                                   ELSE IF p[2] \in green THEN "green"
                                   ELSE IF p[2] = center_row(height) THEN "baseline"
                                   ELSE img[p]]
                      /\ col' = col + 1
                      /\ UNCHANGED <<r_pc, r_fault>>
    /\ UNCHANGED <<width, height, scale>>
    /\ UNCHANGED audio_vars
    /\ UNCHANGED start_vars

\* the loop ends: no chunk is left, or the break of line 189
render_plot_end ==
    /\ r_pc = "loop"
    /\ col >= pair_count(waveform) \/ column_limit(col, width)
    /\ r_pc' = "done"
    /\ UNCHANGED <<width, height, scale, img, col, r_fault>>
    /\ UNCHANGED audio_vars
    /\ UNCHANGED start_vars

\* render_plot from its call to the closure's return
RenderNext ==
    \/ render_plot_begin
    \/ render_plot_column
    \/ render_plot_end
    \/ /\ r_pc = "done"
       /\ render_return

RenderSpec == RenderInit /\ [][RenderNext]_vars

(* ======================= properties of the model ====================== *)

\* the values appended since the first state of the behaviour
EmittedHere == SubSeq(emitted, 2 * warm + 1, Len(emitted))

\* the last n elements of a sequence
LastN(w, n) == SubSeq(w, Len(w) - n + 1, Len(w))

(* C1: whenever process_audio is not in the middle of its append+trim     *)
(* cycle (it does not hold the lock), the history holds at most 2000      *)
(* values.                                                                *)
C1_HistoryWithinCap ==
    a_pc # "push" => Len(waveform) <= HistoryCap

\* a call has returned whose pushes took the history over the cap
C1_Witness ==
    /\ a_pc = "idle"
    /\ calls > 0
    /\ Len(emitted) > HistoryCap
    /\ Len(min_max_data) > 0
    /\ Len(waveform) = HistoryCap

(* C2: while the render_plot closure holds the lock, the history it reads *)
(* has at most 2000 values and is exactly the history some process_audio  *)
(* call left behind when it returned: never an untrimmed one, never one   *)
(* with only part of a call's values.                                     *)
C2_ReaderSeesCommitted ==
    ui_pc = "render" => /\ Len(waveform) <= HistoryCap
                        /\ waveform = committed

\* the reader holds the lock while a callback with values to append, which
\* will take the history over the cap, waits for it
C2_Witness ==
    /\ ui_pc = "render"
    /\ a_pc = "lock"
    /\ Len(min_max_data) = 4
    /\ Len(waveform) + Len(min_max_data) > HistoryCap

(* C3: when no call is in progress, the values emitted by the calls so    *)
(* far, concatenated, are the values one call would emit for the whole    *)
(* stream delivered so far.                                               *)
C3_SplitInvariant ==
    a_pc = "idle" => EmittedHere = reduce(stream)

\* a chunk that began in one buffer and was completed by a later one has
\* been emitted, and an odd number of samples is left over
C3_Witness ==
    /\ a_pc = "idle"
    /\ calls >= 2
    /\ carry_len % 2 = 1
    /\ Len(min_max_data) > 0
    /\ Len(REMAINDER) % 2 = 1

(* C4: after every call REMAINDER holds at most chunk_size - 1 samples,   *)
(* and they are the samples of the call's merged input past its last      *)
(* complete chunk.                                                        *)
C4_CarryOver ==
    /\ Len(REMAINDER) <= chunk_size - 1
    /\ REMAINDER = LastN(samples, Len(samples) % chunk_size)

\* a call that began with a carry-over, emitted a chunk and left another
\* carry-over
C4_Witness ==
    /\ carry_len > 0
    /\ Len(min_max_data) > 0
    /\ Len(REMAINDER) = chunk_size - 2

(* C5: the history is always the most recent part, in order, of           *)
(* everything that was ever appended.                                     *)
C5_HistoryIsNewestSuffix ==
    /\ Len(waveform) <= Len(emitted)
    /\ waveform = LastN(emitted, Len(waveform))

\* a trim has removed values, and the values of the last call differ from
\* the ones the history began with
C5_Witness ==
    /\ a_pc = "idle"
    /\ Len(emitted) > Len(waveform)
    /\ waveform[Len(waveform)] # waveform[2]

\* number of Envelope Pairs the current (or last) call computed
PairsEmitted == Len(min_max_data) \div 2

\* 4096 interleaved f32 samples 1.0, -1.0, 1.0, -1.0, ...
Alternating4096 == [i \in 1..(2 * chunk_size) |-> IF i % 2 = 1 THEN 10 ELSE -10]

(* C6: a call whose merged input has n samples has computed, when it      *)
(* reaches the lock, exactly floor(n / 2048) pairs (two values each); for *)
(* the merged input of 4096 alternating 1.0, -1.0 samples these are two   *)
(* pairs of magnitude 1.0 on both channels, the left one stored negated.  *)
C6_PairsPerCall ==
    a_pc = "lock" =>
        /\ Len(min_max_data) = 2 * PairsEmitted
        /\ PairsEmitted = Len(samples) \div chunk_size
        /\ samples = Alternating4096 => min_max_data = <<-10, 10, -10, 10>>

\* the call on 4096 alternating samples with an empty carry-over has
\* computed its values
C6_Witness ==
    /\ a_pc = "lock"
    /\ carry_len = 0
    /\ samples = Alternating4096
    /\ PairsEmitted = 2

(* C7, as stated: for a chunk-aligned input with an empty carry-over the  *)
(* number of pairs is floor(sample_count / (2 * chunk_size)).             *)
C7_HalfChunkCount ==
    (carry_len = 0 /\ Len(samples) % chunk_size = 0)
        => PairsEmitted = Len(samples) \div (2 * chunk_size)

(* C7, amended: for a chunk-aligned input with an empty carry-over the    *)
(* number of pairs is sample_count / chunk_size, one pair per chunk of    *)
(* 2048 interleaved samples.                                              *)
C7_ChunkCount ==
    (carry_len = 0 /\ Len(samples) % chunk_size = 0)
        => PairsEmitted * chunk_size = Len(samples)

\* an aligned input of one chunk, no carry-over, gave one pair
C7_Witness ==
    /\ calls > 0
    /\ carry_len = 0
    /\ Len(samples) = chunk_size
    /\ PairsEmitted = 1

\* samples of the k-th chunk of the merged input at offsets of parity par
\* (0: left, 1: right) within the chunk
ChannelSamples(k, par) ==
    {samples[(k - 1) * chunk_size + o + 1] :
        o \in {o \in 0..(chunk_size - 1) : o % 2 = par}}

Least(S) == CHOOSE m \in S : \A v \in S : m <= v

Greatest(S) == CHOOSE m \in S : \A v \in S : m >= v

\* the operand of larger absolute value, sign kept, ties giving the max
SignedOperand(S) ==
    IF abs(Least(S)) > abs(Greatest(S)) THEN Least(S) ELSE Greatest(S)

(* C8, as stated: when a call reaches the lock, the deviation it computed *)
(* for each channel of each complete chunk of its merged input is         *)
(* the signed operand of larger absolute value between the channel's min  *)
(* and max (the left one being stored negated).                           *)
C8_SignedDeviation ==
    a_pc = "lock" => \A k \in 1..PairsEmitted :
        /\ 0 - min_max_data[2 * k - 1] = SignedOperand(ChannelSamples(k, 0))
        /\ min_max_data[2 * k] = SignedOperand(ChannelSamples(k, 1))

(* C8, amended: when a call reaches the lock, the deviation it computed   *)
(* for each channel of each complete chunk of its merged input is         *)
(* the absolute value of that operand, |min| when |min| > |max| and |max| *)
(* otherwise; the left one is stored negated, the right one as it is.     *)
(* Channel samples 0.2, -0.9, 0.5 give 0.9: -0.9 stored for a left        *)
(* channel, 0.9 for a right one.                                          *)
C8_Magnitude ==
    a_pc = "lock" => \A k \in 1..PairsEmitted :
        /\ min_max_data[2 * k - 1] = 0 - abs(SignedOperand(ChannelSamples(k, 0)))
        /\ min_max_data[2 * k] = abs(SignedOperand(ChannelSamples(k, 1)))
        /\ ChannelSamples(k, 0) = {2, -9, 5} => min_max_data[2 * k - 1] = -9
        /\ ChannelSamples(k, 1) = {2, -9, 5} => min_max_data[2 * k] = 9

\* a chunk whose right channel holds 0.2, -0.9, 0.5 (|min| > |max|) and
\* whose left channel holds -0.3, 0.7, -0.7 (a tie) has been reduced
C8_Witness ==
    /\ a_pc = "lock"
    /\ PairsEmitted >= 1
    /\ ChannelSamples(1, 1) = {2, -9, 5}
    /\ ChannelSamples(1, 0) = {-3, 7, -7}
    /\ min_max_data = <<-7, 9>>

(* C9, as stated: the callback is never blocked on the lock while the UI  *)
(* thread is inside render_plot.                                          *)
C9_NeverBlockedByRendering ==
    ~(a_pc = "lock" /\ ui_pc = "render")

(* C10: under fair scheduling every call of process_audio that has begun  *)
(* returns, and every call of the render closure that waits for the lock  *)
(* gets it.                                                               *)
C10_CallsComplete ==
    /\ (a_pc # "idle") ~> (a_pc = "idle")
    /\ (ui_pc = "lock") ~> (ui_pc = "render")

\* both threads want the lock at once
C10_Witness ==
    /\ a_pc = "lock"
    /\ ui_pc = "lock"
    /\ mutex = "free"
    /\ calls >= 2

(* C11, as stated: with no default input device, start_audio_stream ends  *)
(* in an error value returned to the caller, and no stream exists.        *)
C11_TypedFailure ==
    (device = "none" /\ start_result # "none")
        => (start_result = "Err" /\ stream_state = "none")

(* C12: with a device and a default configuration, a sample format other  *)
(* than I16 and F32 makes start_audio_stream return an error: no stream,  *)
(* no callback, no process_audio call ever, the history stays empty; for  *)
(* I16 and F32 the stream is built with the callback of that sample type  *)
(* and, the backend building and starting it, is playing.                 *)
C12_FormatDispatch ==
    (start_result # "none" /\ device = "mic") =>
        /\ (sample_format \notin {"I16", "F32"}
               /\ backend_fault \notin {"name", "config"})
             => /\ start_result = "Err"
                /\ stream_state = "none"
                /\ callback = "none"
                /\ calls = 0
                /\ waveform = <<>>
        /\ (sample_format \in {"I16", "F32"} /\ backend_fault = "none")
             => /\ start_result = "Ok"
                /\ stream_state = "playing"
                /\ callback = sample_format

\* start_audio_stream has refused a device whose format is neither
C12_Witness ==
    /\ device = "mic"
    /\ backend_fault = "none"
    /\ sample_format = "U16"
    /\ start_result = "Err"

(* C13, as stated: every canonical sample process_audio works on lies in  *)
(* [-1.0, 1.0].                                                           *)
C13_CanonicalRange ==
    \A i \in 1..Len(samples) : abs(samples[i]) <= 10

(* C15, as stated: a trim that finds the history above the cap leaves     *)
(* half the cap, 1000 values.                                             *)
C15_TrimToHalfCap ==
    [][(a_pc = "push" /\ a_pc' = "idle" /\ Len(waveform) > HistoryCap)
          => Len(waveform') * 2 = HistoryCap]_vars

(* C16, as stated: for a reported range [min, max] the size computed is   *)
(* the largest value at most 4 194 304 and at least min; it is used as    *)
(* the fixed size unless it meets or exceeds max, in which case, as with  *)
(* no reported range, the backend's default is used.                      *)
C16_CeilingOrDefault ==
    buffer_size[1] # "None" =>
        IF buffer_range[1] = "Range"
        THEN buffer_range[2] <= BufferCeiling =>
                buffer_size = IF BufferCeiling >= buffer_range[3]
                              THEN <<"Default", 0>>
                              ELSE <<"Fixed", BufferCeiling>>
        ELSE buffer_size = <<"Default", 0>>

(* C16, amended: for a reported range [min, max] a fixed size is always   *)
(* used, the smaller of max and 4 194 304 (which is at least min whenever *)
(* min is at most 4 194 304); the backend's default is used only when no  *)
(* range is reported.                                                     *)
C16_SmallerOfMaxAndCeiling ==
    buffer_size[1] # "None" =>
        IF buffer_range[1] = "Range"
        THEN /\ buffer_size[1] = "Fixed"
             /\ buffer_size[2] <= buffer_range[3]
             /\ buffer_size[2] <= BufferCeiling
             /\ buffer_size[2] \in {buffer_range[3], BufferCeiling}
             /\ buffer_range[2] <= BufferCeiling => buffer_size[2] >= buffer_range[2]
        ELSE buffer_size = <<"Default", 0>>

\* a range below the ceiling got its max as fixed size
C16_Witness ==
    /\ buffer_range = <<"Range", 64, 1024>>
    /\ buffer_size = <<"Fixed", 1024>>
    /\ start_result = "Ok"

(* C19: whenever the lock is free the history has even length, every      *)
(* value at an even offset (a left one) is <= 0 and every value at an odd *)
(* offset (a right one) is >= 0.                                          *)
C19_PairAligned ==
    mutex = "free" =>
        /\ Len(waveform) % 2 = 0
        /\ \A i \in 1..Len(waveform) :
              IF i % 2 = 1 THEN waveform[i] <= 0 ELSE waveform[i] >= 0

\* a trim has dropped values and the history holds pairs of two calls
C19_Witness ==
    /\ mutex = "free"
    /\ Len(emitted) > Len(waveform)
    /\ waveform[Len(waveform)] # waveform[Len(waveform) - 2]
    /\ waveform[1] < 0

\* how many chunks samples.chunks(chunk_size) yields, the short one included
ChunksYielded == (Len(samples) + chunk_size - 1) \div chunk_size

(* C18, as stated: the reducer applied to a chunk in which a channel has  *)
(* no sample gives deviation 0 for that channel.                          *)
C18_EmptyChannelZero ==
    a_pc = "lock" =>
        \A k \in 1..ChunksYielded :
            /\ left_channel(chunks(samples, k)) = <<>>
                  => max_deviation_left(chunks(samples, k)) = 0
            /\ right_channel(chunks(samples, k)) = <<>>
                  => max_deviation_right(chunks(samples, k)) = 0

(* C18, amended: process_audio reduces only complete chunks, in which     *)
(* each channel has 1024 samples, so every value of an emitted pair is    *)
(* finite: the fold sentinels never reach it. A short chunk with an empty *)
(* channel is left to the carry-over and never reduced; the reducer's     *)
(* expression on it gives +infinity, not 0.                               *)
C18_SentinelsNeverEmitted ==
    a_pc = "lock" =>
        /\ Len(min_max_data) = 2 * chunks_taken(samples)
        /\ \A k \in 1..chunks_taken(samples) :
              /\ Len(left_channel(chunks(samples, k))) * 2 = chunk_size
              /\ Len(right_channel(chunks(samples, k))) * 2 = chunk_size
        /\ \A i \in 1..Len(min_max_data) : abs(min_max_data[i]) < INFINITY
        /\ \A k \in 1..ChunksYielded :
              right_channel(chunks(samples, k)) = <<>>
                  => /\ k > chunks_taken(samples)
                     /\ max_deviation_right(chunks(samples, k)) = INFINITY

\* one chunk reduced while the short chunk behind it has no right sample
C18_Witness ==
    /\ a_pc = "lock"
    /\ Len(samples) = chunk_size + 1
    /\ Len(min_max_data) = 2
    /\ right_channel(chunks(samples, 2)) = <<>>

\* render_plot has made its image and has not panicked
Rendering == r_pc \in {"loop", "done"}

AllZero == \A i \in 1..Len(waveform) : waveform[i] = 0

(* C14: for a history whose values are all 0 render_plot uses scale 1 and *)
(* colours nothing but baseline pixels, on the centre row of the columns  *)
(* it has visited: no pixel of a min or max segment is drawn.             *)
C14_ZeroHistoryBaselineOnly ==
    (AllZero /\ r_pc # "call") =>
        /\ scale = <<1, 1>>
        /\ r_fault = "none"
        /\ \A p \in DOMAIN img :
              IF p[1] < col /\ p[2] = height \div 2
              THEN img[p] = "baseline"
              ELSE img[p] = "black"

\* two pairs of silence were rendered on a canvas with rows on both sides
C14_Witness ==
    /\ r_pc = "done"
    /\ Len(waveform) = 4
    /\ AllZero
    /\ height = MaxHeight
    /\ col = 2
    /\ img[<<1, height \div 2>>] = "baseline"

(* C17, as stated: a segment whose scaled end lies outside the canvas is  *)
(* clipped, not omitted: for a right value scaling to row height or       *)
(* beyond, the rows from below the centre row to the last row are red.    *)
C17_SegmentClippedNotOmitted ==
    Rendering =>
        \A x \in 0..(col - 1) :
            LET y_max == y_position(waveform[2 * x + 2], height, scale)
            IN  y_max[1] >= height * y_max[2]
                    => \A y \in ((height \div 2) + 1)..(height - 1) :
                          img[<<x, y>>] = "red"

\* the largest magnitude of the history, in tenths
Largest == max_amplitude(waveform)

\* The colour column x must have at row y: with M the largest magnitude,
\* a left value l reaches down to row floor(h (M + l) / 2M) and a right
\* value r below M up to row floor(h (M + r) / 2M).
PairColour(l, r, y) ==
    IF Largest > 0 /\ r < Largest /\ height \div 2 < y
         /\ y <= (height * (Largest + r)) \div (2 * Largest)
    THEN "red"
    ELSE IF Largest > 0 /\ y < height \div 2
              /\ (height * (Largest + l)) \div (2 * Largest) <= y
    THEN "green"
    ELSE IF y = height \div 2 THEN "baseline"
    ELSE "black"

(* C20: on every history process_audio can leave and every canvas of at   *)
(* least one column and one row render_plot never panics (no chunk of one *)
(* value is indexed, no pixel is put outside the image, y0 - 1 is never   *)
(* taken of 0); it visits at most width pairs, and column i shows the     *)
(* i-th oldest pair, every other column staying black.                    *)
C20_RenderSafe ==
    /\ r_fault = "none"
    /\ r_pc # "panicked"
    /\ col <= width
    /\ 2 * col <= Len(waveform)
    /\ r_pc = "done" =>
          col = IF width < Len(waveform) \div 2 THEN width ELSE Len(waveform) \div 2
    /\ Rendering =>
          /\ DOMAIN img = (0..(width - 1)) \X (0..(height - 1))
          /\ \A p \in DOMAIN img :
                img[p] = IF p[1] < col
                         THEN PairColour(waveform[2 * p[1] + 1],
                                         waveform[2 * p[1] + 2], p[2])
                         ELSE "black"

\* the loop was left at the canvas edge with pairs to spare, and the
\* columns show green and red rows
C20_Witness ==
    /\ r_pc = "done"
    /\ col = width
    /\ Len(waveform) > 2 * width
    /\ \E p \in DOMAIN img : img[p] = "green"
    /\ \E p \in DOMAIN img : img[p] = "red"

====
